---- MODULE Spec2Model ----
(***************************************************************************)
(* UserInfoProvider (text2sql-frontend): the React provider that holds the *)
(* signed-in user's name, OpenAI API key and avatar object URL, refreshes  *)
(* them from the backend when the health check turns healthy, and lets     *)
(* consumers replace the avatar from a base64 blob.                        *)
(*                                                                         *)
(* The provider is a function component: every render creates new closures *)
(* getUserInfo / getAvatarUrl / setAvatarBlob that capture the userInfo of *)
(* that render.  An async function runs until its first await, is then     *)
(* suspended, and each resumption is one step of the model.                *)
(***************************************************************************)
EXTENDS Integers, Sequences, FiniteSets, Bags, TLC

(* ------------------------------- bounds -------------------------------- *)

\* Number of entry-point invocations a behaviour may make: getUserInfo()
\* started by the effect, setAvatarBlob() and setUserInfo() called by
\* consumers of the context.
MaxCalls == 3

\* Bound: the changes of isHealthy to true, and so the getUserInfo()
\* invocations, of one behaviour.
MaxSyncs == 2

\* Bound: the length of the byte sequences decodeBase64Data is tried on.
MaxPayloadLen == 3

(* ------------------------------- values -------------------------------- *)

\* JavaScript null / undefined, for fields that are otherwise strings.
Null == "null"
Undefined == "undefined"

\* useState<UserInfo>({name: null, openaiApiKey: null, avatarUrl: null})
InitialUserInfo == [name |-> Null, openaiApiKey |-> Null, avatarUrl |-> Null]

\* Bodies api.getUserInfo() may resolve with (response.data).
ProfileData ==
    { [name |-> "Ann", openai_api_key |-> "sk-123"],
      [name |-> "Bob", openai_api_key |-> "sk-456"] }

\* response of a getUserInfo() call that has not resolved
NoResponse == [name |-> Undefined, openai_api_key |-> Undefined]

\* The blob argument of decodeBase64Data: a string, written as the sequence
\* of its characters, or no string at all (NoString) when the field is
\* missing from the JSON body that carried it.
NoString == << Undefined >>
Base64Blobs == { << "i", "V", "A", "=" >> }
BlobArgs == Base64Blobs \cup {NoString}

\* Ways api.getAvatar() may settle.  kind "resolved": the promise resolved
\* and response.data.blob is `blob`.  kind "axios": it rejected with an
\* AxiosError; hasResponse says whether error.response is set, status is
\* error.response.status, dataNullish says whether error.response.data is
\* null/undefined, detail is error.response.data.detail.
AvatarResult(kind, hasResponse, status, dataNullish, detail, blob) ==
    [kind |-> kind, hasResponse |-> hasResponse, status |-> status,
     dataNullish |-> dataNullish, detail |-> detail, blob |-> blob]

AvatarOk ==
    AvatarResult("resolved", TRUE, 200, FALSE, Undefined,
                 << "i", "V", "A", "=" >>)
AvatarNoBlob   == AvatarResult("resolved", TRUE, 200, FALSE, Undefined, NoString)
AvatarNotFound == AvatarResult("axios", TRUE, 404, FALSE, "Avatar not found", NoString)
AvatarDetail   == AvatarResult("axios", TRUE, 500, FALSE, "server error", NoString)
AvatarNoDetail == AvatarResult("axios", TRUE, 500, FALSE, Undefined, NoString)
AvatarNullData == AvatarResult("axios", TRUE, 500, TRUE, Undefined, NoString)
AvatarNetwork  == AvatarResult("axios", FALSE, 0, TRUE, Undefined, NoString)
NoAvatarResult == AvatarResult("none", FALSE, 0, TRUE, Undefined, NoString)

AvatarResults ==
    { AvatarOk, AvatarNoBlob, AvatarNotFound, AvatarDetail, AvatarNoDetail,
      AvatarNullData, AvatarNetwork }

\* The object URLs URL.createObjectURL hands out, in order: each call
\* returns a URL that was never returned before.
ObjectUrlNames ==
    << "blob:1", "blob:2", "blob:3", "blob:4", "blob:5", "blob:6", "blob:7", "blob:8" >>

ErrorGettingUserInfo == "Error getting user info"

(* ------------------------------- state --------------------------------- *)

VARIABLES
    userInfo,     \* the useState value: what the last setUserInfo stored
    rendered,     \* [userInfo, isHealthy] the latest render ran with
    dirty,        \* a setUserInfo call is waiting for its re-render
    syncs,        \* bag of the getUserInfo() invocations in flight
    avatarCalls,  \* bag of the setAvatarBlob() invocations in flight
    objectUrls,   \* object URLs created so far (none is ever revoked)
    blobs,        \* the Blob each object URL refers to
    decodes,      \* history: number of decodeBase64Data calls that resolved
    mergedAt,     \* history: when the response the last merge stored was fetched
    started,      \* history: number of getUserInfo() invocations started
    called,       \* history: number of setAvatarBlob() invocations made
    direct,       \* history: values consumers passed to setUserInfo
    edges,        \* history: false->true changes of isHealthy seen by renders
    last          \* history: the step taken last

vars ==
    << userInfo, rendered, dirty, syncs, avatarCalls, objectUrls, blobs,
       decodes, mergedAt, started, called, direct, edges, last >>

(* ------------------------- pure parts of the code ---------------------- *)

\* The base64 alphabet: the character of each 6-bit value, from 0 on.
Base64Alphabet ==
    << "A", "B", "C", "D", "E", "F", "G", "H", "I", "J", "K", "L", "M",
       "N", "O", "P", "Q", "R", "S", "T", "U", "V", "W", "X", "Y", "Z",
       "a", "b", "c", "d", "e", "f", "g", "h", "i", "j", "k", "l", "m",
       "n", "o", "p", "q", "r", "s", "t", "u", "v", "w", "x", "y", "z",
       "0", "1", "2", "3", "4", "5", "6", "7", "8", "9", "+", "/" >>

\* The characters Buffer's base64 decoder gives a value: the alphabet and the
\* two of the URL-safe alphabet.
IsBase64Char(c) ==
    \/ \E i \in 1..Len(Base64Alphabet) : Base64Alphabet[i] = c
    \/ c \in {"-", "_"}

\* The 6-bit value of a character ("-" and "_" stand for "+" and "/").
Sextet(c) ==
    IF c = "-" THEN 62
    ELSE IF c = "_" THEN 63
    ELSE (CHOOSE i \in 1..Len(Base64Alphabet) : Base64Alphabet[i] = c) - 1

\* What the decoder keeps of a string: the part before the first "=",
\* without the characters that have no value; nothing when that leaves
\* fewer than two characters.
Base64Clean(str) ==
    LET pads == {i \in 1..Len(str) : str[i] = "="}
        head == IF pads = {} THEN str
                ELSE SubSeq(str, 1, (CHOOSE i \in pads : \A j \in pads : i <= j) - 1)
        kept == SelectSeq(head, IsBase64Char)
    IN IF Len(kept) < 2 THEN << >> ELSE kept

\* The bytes of cleaned base64 characters: three bytes of each four
\* characters, one byte of two last characters, two bytes of three, none
\* of a single last one.
RECURSIVE ToByteArray(_)
ToByteArray(chars) ==
    IF Len(chars) >= 4
    THEN LET tmp == Sextet(chars[1]) * 262144 + Sextet(chars[2]) * 4096
                    + Sextet(chars[3]) * 64 + Sextet(chars[4])
         IN << (tmp \div 65536) % 256, (tmp \div 256) % 256, tmp % 256 >>
            \o ToByteArray(SubSeq(chars, 5, Len(chars)))
    ELSE IF Len(chars) = 3
    THEN LET tmp == Sextet(chars[1]) * 1024 + Sextet(chars[2]) * 16
                    + Sextet(chars[3]) \div 4
         IN << (tmp \div 256) % 256, tmp % 256 >>
    ELSE IF Len(chars) = 2
    THEN << (Sextet(chars[1]) * 4 + Sextet(chars[2]) \div 16) % 256 >>
    ELSE << >>

\* Mutant: the buffer read as "ascii", which drops the high bit of each byte.
BinaryString_Ascii(bytes) == [i \in 1..Len(bytes) |-> bytes[i] % 128]

\* buffer.toString("binary"): the string whose i-th character has the i-th
\* byte as its code.  A string is written here as its character codes.
BinaryString(bytes) == [i \in 1..Len(bytes) |-> bytes[i]]

\* Uint8Array.from(byteNumbers), byteNumbers[i] being str.charCodeAt(i):
\* each number is stored modulo 256.
ByteArrayOf(str) == [i \in 1..Len(str) |-> str[i] % 256]

\* new Blob([byteArray]) of decodeBase64Data(base64Data): the bytes the
\* object URL refers to, and (history) the string they were decoded from.
NewBlob(base64Data) ==
    [base64Data |-> base64Data,
     bytes |-> ByteArrayOf(BinaryString(ToByteArray(Base64Clean(base64Data))))]

\* Mutant: the URL of the first object is handed out again.
createObjectURL_Reused == ObjectUrlNames[1]

\* URL.createObjectURL(blob): a URL no earlier call returned.
createObjectURL == ObjectUrlNames[Cardinality(objectUrls) + 1]

\* decodeBase64Data(base64Data).  Buffer.from(x, "base64") decodes any
\* string and throws a TypeError when x is not a string, so the returned
\* promise rejects exactly when the argument is not a string; otherwise it
\* resolves with a newly created object URL.
decodeBase64Data(base64Data) ==
    IF base64Data = NoString
    THEN [threw |-> TRUE,  url |-> Null]
    ELSE [threw |-> FALSE, url |-> createObjectURL]

\* error.response?.status
ResponseStatus(r) == IF r.hasResponse THEN r.status ELSE 0

\* error.response?.data.detail, evaluated when it does not throw
ResponseDetail(r) == IF r.hasResponse THEN r.detail ELSE Undefined

\* error.response?.data.detail throws a TypeError when error.response is set
\* and its data is null or undefined (only `response` is optionally chained).
DetailThrows(r) == r.hasResponse /\ r.dataNullish

\* Mutant: the status test inverted.
ShouldNotify_Inverted(r) == ResponseStatus(r) = 404

\* The status test of getAvatarUrl's catch block.
ShouldNotify(r) == ResponseStatus(r) # 404

\* Mutant: the catch block notifies before it reads the detail, so it has
\* notified when reading the detail throws.
getAvatarUrl_NotifiesThenThrows(r) ==
    IF r.kind = "resolved"
    THEN LET d == decodeBase64Data(r.blob) IN
         IF d.threw
         THEN [value |-> Null, notes |-> << >>, threw |-> FALSE]
         ELSE [value |-> d.url, notes |-> << >>, threw |-> FALSE]
    ELSE IF ShouldNotify(r)
         THEN IF DetailThrows(r)
              THEN [value |-> Null, notes |-> << Undefined >>, threw |-> TRUE]
              ELSE [value |-> Null, notes |-> << ResponseDetail(r) >>, threw |-> FALSE]
         ELSE [value |-> Null, notes |-> << >>, threw |-> FALSE]

\* getAvatarUrl() once api.getAvatar() has settled with r:
\*   value - what the returned promise resolves with (a URL or null)
\*   notes - the messages passed to enqueueSnackbar
\*   threw - the returned promise rejects (an error thrown inside the catch)
getAvatarUrl(r) ==
    IF r.kind = "resolved"
    THEN LET d == decodeBase64Data(r.blob) IN
         IF d.threw
         THEN \* caught; a TypeError is not an AxiosError
              [value |-> Null, notes |-> << >>, threw |-> FALSE]
         ELSE [value |-> d.url, notes |-> << >>, threw |-> FALSE]
    ELSE \* isAxiosError(error)
         IF ShouldNotify(r)
         THEN IF DetailThrows(r)
              THEN [value |-> Null, notes |-> << >>, threw |-> TRUE]
              ELSE [value |-> Null, notes |-> << ResponseDetail(r) >>, threw |-> FALSE]
         ELSE [value |-> Null, notes |-> << >>, threw |-> FALSE]

\* Mutant: no fallback to the captured avatarUrl.
MergedUserInfo_NoFallback(s) ==
    [name         |-> s.response.name,
     openaiApiKey |-> s.response.openai_api_key,
     avatarUrl    |-> s.avatarUrl]

\* Mutant: the merge stores the fetched name with the captured key.
MergedUserInfo_KeepsKey(s) ==
    [name         |-> s.response.name,
     openaiApiKey |-> s.userInfo.openaiApiKey,
     avatarUrl    |-> IF s.avatarUrl # Null THEN s.avatarUrl ELSE s.userInfo.avatarUrl]

\* Mutant: name and key stored in each other's field.
MergedUserInfo_Swapped(s) ==
    [name         |-> s.response.openai_api_key,
     openaiApiKey |-> s.response.name,
     avatarUrl    |-> IF s.avatarUrl # Null THEN s.avatarUrl ELSE s.userInfo.avatarUrl]

\* The object getUserInfo passes to setUserInfo; s is the invocation, whose
\* s.userInfo is the userInfo its closure captured.
MergedUserInfo(s) ==
    [name         |-> s.response.name,
     openaiApiKey |-> s.response.openai_api_key,
     avatarUrl    |-> IF s.avatarUrl # Null THEN s.avatarUrl ELSE s.userInfo.avatarUrl]

\* Mutant: setAvatarBlob stores a data URL made of the base64 text in
\* place of the object URL.
AvatarOnlyUserInfo_StoresData(c) ==
    [c.userInfo EXCEPT !.avatarUrl = "data:image/png;base64"]

\* The object setAvatarBlob passes to setUserInfo; c is the invocation.
AvatarOnlyUserInfo(c) == [c.userInfo EXCEPT !.avatarUrl = c.url]

\* Mutant: the catch block swallows the error.
GetUserInfoCatch_Silent == << >>

\* The catch block of getUserInfo: the messages it passes to enqueueSnackbar.
GetUserInfoCatch == << ErrorGettingUserInfo >>

\* Mutant: no dependency array, the effect runs after every render.
UseEffectFires_EveryRender(prevIsHealthy, isHealthy) == TRUE

\* useEffect(..., [isHealthy]) after a re-render: the effect runs when the
\* dependency differs from the previous render's.
UseEffectFires(prevIsHealthy, isHealthy) == prevIsHealthy # isHealthy

\* Mutant: the effect starts no getUserInfo() while one is in flight.
EffectStartsSync_Exclusive(prevIsHealthy, isHealthy) ==
    UseEffectFires(prevIsHealthy, isHealthy) /\ isHealthy /\ syncs = EmptyBag

\* The effect body: if (isHealthy) getUserInfo()
EffectStartsSync(prevIsHealthy, isHealthy) ==
    UseEffectFires(prevIsHealthy, isHealthy) /\ isHealthy

(* --------------------------- invocation records ------------------------ *)

\* Mutant: the invocation issues api.getAvatar() together with
\* api.getUserInfo().
NewSync_Parallel(info, store) ==
    [pc |-> "profile", userInfo |-> info, response |-> NoResponse, avatarUrl |-> Null,
     profile |-> "pending", avatarIssued |-> TRUE, avatar |-> NoAvatarResult,
     notes |-> << >>,
     wrote |-> FALSE, storeAtStart |-> store, fetchedAt |-> 0, overwrote |-> 0]

\* A getUserInfo() invocation started by the render that saw `info`.
\* pc: "profile" awaiting api.getUserInfo(), "avatar" awaiting
\* api.getAvatar(), "merge" getAvatarUrl() returned and the await of it has
\* not resumed yet, "done" the promise getUserInfo returned is fulfilled.
\* History fields: profile and avatar are how the two requests settled,
\* avatarIssued whether api.getAvatar() was called, notes the messages this
\* invocation passed to enqueueSnackbar, wrote whether it called setUserInfo,
\* storeAtStart the useState value when it started, fetchedAt the place of
\* its profile response among the settled requests (0: not recorded),
\* overwrote the fetchedAt of the merge before its own (0: none).
NewSync(info, store) ==
    [pc |-> "profile", userInfo |-> info, response |-> NoResponse, avatarUrl |-> Null,
     profile |-> "pending", avatarIssued |-> FALSE, avatar |-> NoAvatarResult,
     notes |-> << >>,
     wrote |-> FALSE, storeAtStart |-> store, fetchedAt |-> 0, overwrote |-> 0]

\* A setAvatarBlob(blob) invocation made through the closure that captured
\* `info`; d is what decodeBase64Data(blob) did.  pc: "await" suspended on
\* the decode promise, "done" fulfilled, "rejected" the promise setAvatarBlob
\* returned is rejected.
NewAvatarCall(info, blob, d) ==
    [pc |-> IF d.threw THEN "rejected" ELSE "await",
     userInfo |-> info, blob |-> blob, url |-> d.url]

\* Placeholders in the record of a step that advanced no invocation.
NoSync == [NewSync(InitialUserInfo, InitialUserInfo) EXCEPT !.pc = "none"]
NoCall ==
    [NewAvatarCall(InitialUserInfo, NoString, [threw |-> TRUE, url |-> Null])
        EXCEPT !.pc = "none"]

\* The record of a step: the action, the invocation it advanced as the step
\* left it, and what the step needs of the state before it: the useState
\* value for a step that calls setUserInfo or ends an invocation, the object
\* URLs for a step that decodes.
Step(op, sync, call, store, urls) ==
    [op |-> op, sync |-> sync, call |-> call, store |-> store, urls |-> urls]

(* ------------------------------- Init ---------------------------------- *)

\* The health check has not confirmed the backend when the provider mounts.
InitialIsHealthy == FALSE

\* The state after the first render and its effect: the effect runs on
\* mount, isHealthy is false, so no getUserInfo() has been started.
Init ==
    /\ userInfo = InitialUserInfo
    /\ rendered = [userInfo |-> InitialUserInfo, isHealthy |-> InitialIsHealthy]
    /\ dirty = FALSE
    /\ syncs = EmptyBag
    /\ avatarCalls = EmptyBag
    /\ objectUrls = {}
    /\ blobs = << >>
    /\ mergedAt = 0
    /\ decodes = 0
    /\ started = 0
    /\ called = 0
    /\ direct = << >>
    /\ edges = 0
    /\ last = Step("Mount", NoSync, NoCall, InitialUserInfo, {})

(* ------------------------------ actions -------------------------------- *)

\* The api.getUserInfo() requests that have settled so far.
ProfilesSettled ==
    LET waiting == {s \in BagToSet(syncs) : s.pc = "profile"} IN
    started - BagCardinality([s \in waiting |-> CopiesIn(s, syncs)])

\* One invocation leaves state `old` for state `new`; one that is done or
\* rejected is no longer in flight.
Advance(bag, old, new) ==
    IF new.pc \in {"done", "rejected"}
    THEN bag (-) SetToBag({old})
    ELSE (bag (-) SetToBag({old})) (+) SetToBag({new})

\* Entry-point invocations made so far.
Calls == started + called + Len(direct)

\* Mutant: a change of isHealthy to false abandons the invocations in flight.
HealthChange_Cancels ==
    LET isHealthy == ~rendered.isHealthy IN
    /\ isHealthy => (Calls < MaxCalls /\ edges < MaxSyncs)
    /\ rendered' = [userInfo |-> userInfo, isHealthy |-> isHealthy]
    /\ dirty' = FALSE
    /\ edges' = IF isHealthy THEN edges + 1 ELSE edges
    /\ IF EffectStartsSync(rendered.isHealthy, isHealthy)
       THEN /\ Calls < MaxCalls
            /\ syncs' = syncs (+) SetToBag({NewSync(userInfo, userInfo)})
            /\ started' = started + 1
            /\ last' = Step("HealthChange", NewSync(userInfo, userInfo), NoCall,
                         InitialUserInfo, {})
       ELSE /\ syncs' = EmptyBag
            /\ UNCHANGED started
            /\ last' = Step("HealthChange", NoSync, NoCall, InitialUserInfo, {})
    /\ UNCHANGED << userInfo, avatarCalls, objectUrls, blobs, decodes, mergedAt,
                    called, direct >>

\* The health check provider changes isHealthy and this provider re-renders
\* with the new value.  The render reads the current useState value; its
\* closures capture it.  The effect runs because its dependency changed and
\* calls getUserInfo(), which runs up to `await api.getUserInfo()`.  A change
\* to true is taken only while another invocation fits the bound.
HealthChange ==
    LET isHealthy == ~rendered.isHealthy IN
    /\ isHealthy => (Calls < MaxCalls /\ edges < MaxSyncs)
    /\ rendered' = [userInfo |-> userInfo, isHealthy |-> isHealthy]
    /\ dirty' = FALSE
    /\ edges' = IF isHealthy THEN edges + 1 ELSE edges
    /\ IF EffectStartsSync(rendered.isHealthy, isHealthy)
       THEN /\ Calls < MaxCalls
            /\ syncs' = syncs (+) SetToBag({NewSync(userInfo, userInfo)})
            /\ started' = started + 1
            /\ last' = Step("HealthChange", NewSync(userInfo, userInfo), NoCall,
                         InitialUserInfo, {})
       ELSE /\ UNCHANGED << syncs, started >>
            /\ last' = Step("HealthChange", NoSync, NoCall, InitialUserInfo, {})
    /\ UNCHANGED << userInfo, avatarCalls, objectUrls, blobs, decodes, mergedAt,
                    called, direct >>

\* The re-render a setUserInfo call scheduled, with isHealthy unchanged, and
\* the effect of its commit.
Render ==
    /\ dirty
    /\ dirty' = FALSE
    /\ rendered' = [rendered EXCEPT !.userInfo = userInfo]
    /\ IF EffectStartsSync(rendered.isHealthy, rendered.isHealthy)
       THEN /\ Calls < MaxCalls
            /\ syncs' = syncs (+) SetToBag({NewSync(userInfo, userInfo)})
            /\ started' = started + 1
            /\ last' = Step("Render", NewSync(userInfo, userInfo), NoCall, InitialUserInfo, {})
       ELSE /\ UNCHANGED << syncs, started >>
            /\ last' = Step("Render", NoSync, NoCall, InitialUserInfo, {})
    /\ UNCHANGED << userInfo, avatarCalls, objectUrls, blobs, decodes, mergedAt,
                    called, direct, edges >>

\* api.getUserInfo() resolves with `data`: getUserInfo resumes, calls
\* getAvatarUrl(), which calls api.getAvatar() and suspends.  `at` is
\* (history) the place of the response among the settled requests, 0 where
\* that is not recorded.
GetUserInfoResolvedAt(s, data, at) ==
    /\ s.pc = "profile"
    /\ LET t == [s EXCEPT !.pc = "avatar", !.response = data, !.profile = "resolved",
                          !.avatarIssued = TRUE, !.fetchedAt = at] IN
       /\ syncs' = Advance(syncs, s, t)
       /\ last' = Step("GetUserInfoResolved", t, NoCall, InitialUserInfo, {})
    /\ UNCHANGED << userInfo, rendered, dirty, avatarCalls, objectUrls, blobs, decodes, mergedAt,
                    started, called, direct, edges >>

\* api.getUserInfo() resolves with `data`; when it did is not recorded.
GetUserInfoResolved(s, data) == GetUserInfoResolvedAt(s, data, 0)

\* api.getUserInfo() rejects: the catch block of getUserInfo runs and the
\* invocation ends.
GetUserInfoRejected(s) ==
    /\ s.pc = "profile"
    /\ LET t == [s EXCEPT !.pc = "done", !.profile = "rejected",
                          !.notes = s.notes \o GetUserInfoCatch] IN
       /\ syncs' = Advance(syncs, s, t)
       /\ last' = Step("GetUserInfoRejected", t, NoCall, userInfo, {})
    /\ UNCHANGED << userInfo, rendered, dirty, avatarCalls, objectUrls, blobs, decodes, mergedAt,
                    started, called, direct, edges >>

\* api.getAvatar() settles with r: getAvatarUrl runs to its end.  When it
\* returns, getUserInfo's await of it resumes in a later step (Merge); when
\* it throws, the catch block of getUserInfo runs and the invocation ends.
GetAvatarSettled(s, r) ==
    /\ s.pc = "avatar"
    /\ LET g == getAvatarUrl(r)
           t == [s EXCEPT !.pc = IF g.threw THEN "done" ELSE "merge",
                          !.avatar = r,
                          !.avatarUrl = g.value,
                          !.notes = s.notes \o g.notes \o
                                    (IF g.threw THEN GetUserInfoCatch ELSE << >>)]
       IN
       /\ syncs' = Advance(syncs, s, t)
       /\ objectUrls' = IF g.value # Null THEN objectUrls \cup {g.value} ELSE objectUrls
       /\ blobs' = IF g.value # Null THEN blobs @@ (g.value :> NewBlob(r.blob)) ELSE blobs
       /\ decodes' = IF g.value # Null THEN decodes + 1 ELSE decodes
       /\ last' = Step("GetAvatarSettled", t, NoCall, userInfo, objectUrls)
    /\ UNCHANGED << userInfo, mergedAt, rendered, dirty, avatarCalls,
                    started, called, direct, edges >>

\* getUserInfo resumes after `await getAvatarUrl()` and calls setUserInfo.
Merge(s) ==
    /\ s.pc = "merge"
    /\ userInfo' = MergedUserInfo(s)
    /\ dirty' = TRUE
    /\ mergedAt' = s.fetchedAt
    /\ LET t == [s EXCEPT !.pc = "done", !.wrote = TRUE, !.overwrote = mergedAt] IN
       /\ syncs' = Advance(syncs, s, t)
       /\ last' = Step("Merge", t, NoCall, userInfo, {})
    /\ UNCHANGED << rendered, avatarCalls, objectUrls, blobs, decodes,
                    started, called, direct, edges >>

\* A consumer calls the setAvatarBlob of the latest render: decodeBase64Data
\* runs at once, and setAvatarBlob suspends on its promise, or is rejected
\* with it.
SetAvatarBlobCall(blob) ==
    /\ Calls < MaxCalls
    /\ called' = called + 1
    /\ LET d == decodeBase64Data(blob)
           c == NewAvatarCall(rendered.userInfo, blob, d)
       IN
       /\ avatarCalls' = IF d.threw THEN avatarCalls ELSE avatarCalls (+) SetToBag({c})
       /\ objectUrls' = IF d.threw THEN objectUrls ELSE objectUrls \cup {d.url}
       /\ blobs' = IF d.threw THEN blobs ELSE blobs @@ (d.url :> NewBlob(blob))
       /\ decodes' = IF d.threw THEN decodes ELSE decodes + 1
       /\ last' = Step("SetAvatarBlobCall", NoSync, c, InitialUserInfo, objectUrls)
    /\ UNCHANGED << userInfo, mergedAt, rendered, dirty, syncs, started, direct, edges >>

\* Mutant: setAvatarBlob revokes the object URL its write supersedes.
SetAvatarBlobResume_Revokes(c) ==
    /\ c.pc = "await"
    /\ userInfo' = AvatarOnlyUserInfo(c)
    /\ dirty' = TRUE
    /\ objectUrls' = objectUrls \ ({userInfo.avatarUrl} \ {c.url})
    /\ blobs' = [url \in DOMAIN blobs \ ({userInfo.avatarUrl} \ {c.url}) |-> blobs[url]]
    /\ LET t == [c EXCEPT !.pc = "done"] IN
       /\ avatarCalls' = Advance(avatarCalls, c, t)
       /\ last' = Step("SetAvatarBlobResume", NoSync, t, userInfo, {})
    /\ UNCHANGED << rendered, syncs, decodes, mergedAt, started, called, direct, edges >>

\* setAvatarBlob resumes after `await decodeBase64Data(blob)` and calls
\* setUserInfo.
SetAvatarBlobResume(c) ==
    /\ c.pc = "await"
    /\ userInfo' = AvatarOnlyUserInfo(c)
    /\ dirty' = TRUE
    /\ LET t == [c EXCEPT !.pc = "done"] IN
       /\ avatarCalls' = Advance(avatarCalls, c, t)
       /\ last' = Step("SetAvatarBlobResume", NoSync, t, userInfo, {})
    /\ UNCHANGED << rendered, syncs, objectUrls, blobs, decodes, mergedAt, started,
                    called, direct, edges >>

\* Values a consumer may pass to the setUserInfo it gets from the context:
\* the value it rendered with, under a name of its own choosing.
DirectValues == { [rendered.userInfo EXCEPT !.name = "Eve"] }

\* A consumer calls the setUserInfo exposed as the context's second element.
SetUserInfoDirect(v) ==
    /\ Calls < MaxCalls
    /\ userInfo' = v
    /\ dirty' = TRUE
    /\ direct' = Append(direct, v)
    /\ last' = Step("SetUserInfoDirect", NoSync, NoCall, userInfo, {})
    /\ UNCHANGED << rendered, syncs, avatarCalls, objectUrls, blobs, decodes,
                    mergedAt, started, called, edges >>

\* The provider with its health signal, its renders, its syncs and its
\* setAvatarBlob calls.
Next ==
    \/ HealthChange
    \/ Render
    \/ \E s \in BagToSet(syncs) : \E data \in ProfileData : GetUserInfoResolved(s, data)
    \/ \E s \in BagToSet(syncs) : GetUserInfoRejected(s)
    \/ \E s \in BagToSet(syncs) : \E r \in AvatarResults : GetAvatarSettled(s, r)
    \/ \E s \in BagToSet(syncs) : Merge(s)
    \/ \E blob \in BlobArgs : SetAvatarBlobCall(blob)
    \/ \E c \in BagToSet(avatarCalls) : SetAvatarBlobResume(c)

Spec == Init /\ [][Next]_vars

\* A step of some getUserInfo() invocation in flight: a request of it
\* settles, or its continuation runs.
SyncProgress ==
    \/ \E s \in BagToSet(syncs) : \E data \in ProfileData : GetUserInfoResolved(s, data)
    \/ \E s \in BagToSet(syncs) : GetUserInfoRejected(s)
    \/ \E s \in BagToSet(syncs) : \E r \in AvatarResults : GetAvatarSettled(s, r)
    \/ \E s \in BagToSet(syncs) : Merge(s)

\* The provider with no consumer calling: isHealthy changes, the component
\* re-renders and the getUserInfo() invocations run.
NextSyncs ==
    \/ HealthChange
    \/ Render
    \/ SyncProgress

\* The same, when every network request eventually settles and every resumed
\* continuation eventually runs.
SpecLive == Init /\ [][NextSyncs]_vars /\ WF_vars(SyncProgress)

\* The provider with no consumer calling, each profile response stamped
\* with its place in the order the api.getUserInfo() requests settled in.
NextRace ==
    \/ HealthChange
    \/ Render
    \/ \E s \in BagToSet(syncs) : \E data \in ProfileData :
          GetUserInfoResolvedAt(s, data, ProfilesSettled + 1)
    \/ \E s \in BagToSet(syncs) : GetUserInfoRejected(s)
    \/ \E s \in BagToSet(syncs) : \E r \in AvatarResults : GetAvatarSettled(s, r)
    \/ \E s \in BagToSet(syncs) : Merge(s)

SpecRace == Init /\ [][NextRace]_vars

\* Byte values payloads are made of: the least, the greatest, and one with
\* the high bit set and low bits of both kinds.
ByteSamples == {0, 137, 255}

\* The byte sequences of at most MaxPayloadLen sample bytes.
Payloads ==
    UNION { [1..n -> ByteSamples] : n \in 0..MaxPayloadLen }

\* The base64 encoding of a byte sequence (RFC 4648, with padding).
RECURSIVE Base64Encode(_)
Base64Encode(bytes) ==
    IF Len(bytes) >= 3
    THEN LET tmp == bytes[1] * 65536 + bytes[2] * 256 + bytes[3]
         IN << Base64Alphabet[(tmp \div 262144) + 1],
               Base64Alphabet[((tmp \div 4096) % 64) + 1],
               Base64Alphabet[((tmp \div 64) % 64) + 1],
               Base64Alphabet[(tmp % 64) + 1] >>
            \o Base64Encode(SubSeq(bytes, 4, Len(bytes)))
    ELSE IF Len(bytes) = 2
    THEN LET tmp == bytes[1] * 1024 + bytes[2] * 4
         IN << Base64Alphabet[(tmp \div 4096) + 1],
               Base64Alphabet[((tmp \div 64) % 64) + 1],
               Base64Alphabet[(tmp % 64) + 1], "=" >>
    ELSE IF Len(bytes) = 1
    THEN << Base64Alphabet[(bytes[1] \div 4) + 1],
            Base64Alphabet[((bytes[1] % 4) * 16) + 1], "=", "=" >>
    ELSE << >>

\* The encoding of each payload.
Encoding == [p \in Payloads |-> Base64Encode(p)]

\* The provider with consumers that hand setAvatarBlob the base64 encoding
\* of one payload, again and again: decodeBase64Data applied to the valid
\* encodings of the payloads.
NextDecode ==
    \/ \E p \in Payloads :
          /\ \A url \in DOMAIN blobs : blobs[url].base64Data = Encoding[p]
          /\ SetAvatarBlobCall(Encoding[p])
    \/ \E c \in BagToSet(avatarCalls) : SetAvatarBlobResume(c)
    \/ Render

SpecDecode == Init /\ [][NextDecode]_vars

\* The same, with consumers that also use the exposed setUserInfo.
NextContext ==
    \/ Next
    \/ \E v \in DirectValues : SetUserInfoDirect(v)

SpecContext == Init /\ [][NextContext]_vars

(* ------------------------------- claims -------------------------------- *)

\* The getUserInfo() invocation the last step advanced has ended with it.
SyncEnded == last.sync.pc = "done"

\* api.getAvatar() failed with anything but a 404 response.
NonNotFoundFailure(r) == r.kind = "axios" /\ ~(r.hasResponse /\ r.status = 404)

\* api.getAvatar() resolved and decoding its payload threw.
DecodeFailure(r) == r.kind = "resolved" /\ r.blob = NoString

\* The error response carries a detail.
DetailAvailable(r) == r.hasResponse /\ ~r.dataNullish /\ r.detail # Undefined

\* C1: when api.getUserInfo() of a sync fails, that sync ends without
\* calling setUserInfo (the store is what it was before the step), without
\* having called api.getAvatar(), and having emitted exactly the one
\* notification "Error getting user info".
C1_ProfileFailureAborts ==
    /\ last.op = "GetUserInfoRejected" =>
          /\ SyncEnded
          /\ userInfo = last.store
          /\ ~last.sync.wrote
          /\ ~last.sync.avatarIssued
          /\ last.sync.notes = << ErrorGettingUserInfo >>
    /\ \A s \in BagToSet(syncs) : s.profile # "rejected"
    /\ last.sync.profile = "rejected" => last.op = "GetUserInfoRejected"

\* C1 witness: a sync whose profile request failed has ended while the store
\* held a profile written earlier.
C1_Witness ==
    /\ last.op = "GetUserInfoRejected"
    /\ userInfo.name = "Ann"
    /\ userInfo.avatarUrl # Null

\* C2 (as claimed): a merge of a sync whose avatar step produced no handle
\* writes the avatar handle the store holds at the moment of the merge.
C2_MergeReadsCurrentAvatar ==
    (last.op = "Merge" /\ last.sync.avatarUrl = Null) =>
        userInfo.avatarUrl = last.store.avatarUrl

\* C3 (as claimed): the setUserInfo call of setAvatarBlob leaves the store's
\* name and openaiApiKey as they were just before it.
C3_AvatarWriteKeepsNameAndKey ==
    last.op = "SetAvatarBlobResume" =>
        /\ userInfo.name = last.store.name
        /\ userInfo.openaiApiKey = last.store.openaiApiKey

\* C4: the number of syncs started equals the number of false->true changes
\* of isHealthy the provider has rendered; a re-render with isHealthy
\* unchanged and a change to false start none.
C4_OneSyncPerEdge ==
    /\ started = edges
    /\ last.op = "Render" => last.sync = NoSync
    /\ (last.op = "HealthChange" /\ ~rendered.isHealthy) => last.sync = NoSync
    /\ (last.op = "HealthChange" /\ rendered.isHealthy) => last.sync # NoSync

\* C4 witness: after a loss and a recovery of health the second sync has
\* been started, and the provider has since re-rendered while healthy.
C4_Witness ==
    /\ started = 2
    /\ edges = 2
    /\ rendered.isHealthy
    /\ last.op = "Render"

\* C5 (as claimed): a sync whose profile request succeeded and whose avatar
\* request failed otherwise than with a 404 - an error response, no response,
\* or a failure while decoding - emits exactly one notification, carrying the
\* server's detail when there is one.
C5_OneNotificationPerAvatarFailure ==
    (/\ SyncEnded
     /\ last.sync.profile = "resolved"
     /\ NonNotFoundFailure(last.sync.avatar) \/ DecodeFailure(last.sync.avatar)) =>
        /\ Len(last.sync.notes) = 1
        /\ DetailAvailable(last.sync.avatar) =>
              last.sync.notes[1] = last.sync.avatar.detail

\* C5 (amended): when the avatar request is rejected otherwise than with a
\* 404 the sync emits exactly one notification, carrying the server's detail
\* when there is one; when decoding the payload fails it emits none.
C5_OneNotificationPerRequestFailure ==
    (SyncEnded /\ last.sync.profile = "resolved") =>
        /\ NonNotFoundFailure(last.sync.avatar) =>
              /\ Len(last.sync.notes) = 1
              /\ DetailAvailable(last.sync.avatar) =>
                    last.sync.notes[1] = last.sync.avatar.detail
        /\ DecodeFailure(last.sync.avatar) => last.sync.notes = << >>

\* C5 witness: a sync has ended whose avatar request got a 500 with a detail.
C5_Witness ==
    /\ SyncEnded
    /\ last.sync.avatar = AvatarDetail
    /\ last.sync.notes = << "server error" >>

\* C6 (as claimed): a sync whose profile request succeeded and whose avatar
\* request failed otherwise than with a 404 still ends with a merge that
\* stores the fetched name and key and keeps the avatar handle held before,
\* and emits no "Error getting user info".
C6_AvatarFailureNeverAborts ==
    (/\ SyncEnded
     /\ last.sync.profile = "resolved"
     /\ NonNotFoundFailure(last.sync.avatar) \/ DecodeFailure(last.sync.avatar)) =>
        /\ last.op = "Merge"
        /\ last.sync.wrote
        /\ userInfo.name = last.sync.response.name
        /\ userInfo.openaiApiKey = last.sync.response.openai_api_key
        /\ userInfo.avatarUrl = last.sync.storeAtStart.avatarUrl
        /\ \A k \in 1..Len(last.sync.notes) : last.sync.notes[k] # ErrorGettingUserInfo

\* C7: the merge of a sync whose avatar request got a 404 stores the fetched
\* name and key and the avatar handle the store held when the sync started;
\* the sync emits no notification, and a 404 never ends it before the merge.
C7_NotFoundKeepsAvatar ==
    /\ (last.op = "Merge" /\ last.sync.avatar = AvatarNotFound) =>
          /\ userInfo.name = last.sync.response.name
          /\ userInfo.openaiApiKey = last.sync.response.openai_api_key
          /\ userInfo.avatarUrl = last.sync.storeAtStart.avatarUrl
          /\ last.sync.notes = << >>
    /\ (SyncEnded /\ last.sync.avatar = AvatarNotFound) => last.op = "Merge"
    /\ \A s \in BagToSet(syncs) :
          s.avatar = AvatarNotFound => (s.pc = "merge" /\ s.notes = << >>)

\* C7 witness: such a merge has kept a handle the store held before the sync.
C7_Witness ==
    /\ last.op = "Merge"
    /\ last.sync.avatar = AvatarNotFound
    /\ last.sync.storeAtStart.avatarUrl # Null
    /\ userInfo.avatarUrl = last.sync.storeAtStart.avatarUrl
    /\ userInfo.name = "Bob"

\* C8: when both requests succeed, the decode creates an object URL that no
\* earlier decode returned, and the merge stores the fetched name, the
\* fetched key and that URL; the sync emits no notification.
C8_FullSyncStoresFetchedProfile ==
    /\ (last.op = "GetAvatarSettled" /\ last.sync.avatar = AvatarOk) =>
          /\ last.sync.pc = "merge"
          /\ last.sync.avatarUrl # Null
          /\ last.sync.avatarUrl \notin last.urls
          /\ last.sync.avatarUrl \in objectUrls
    /\ (last.op = "Merge" /\ last.sync.avatar = AvatarOk) =>
          /\ userInfo = [name         |-> last.sync.response.name,
                         openaiApiKey |-> last.sync.response.openai_api_key,
                         avatarUrl    |-> last.sync.avatarUrl]
          /\ last.sync.avatarUrl \in objectUrls
          /\ last.sync.notes = << >>
          /\ \A s \in BagToSet(syncs) : s.avatarUrl # last.sync.avatarUrl
          /\ \A c \in BagToSet(avatarCalls) : c.url # last.sync.avatarUrl
    /\ (SyncEnded /\ last.sync.avatar = AvatarOk) => last.op = "Merge"

\* C8 witness: a full sync has stored Ann's profile with the second object
\* URL ever created.
C8_Witness ==
    /\ last.op = "Merge"
    /\ last.sync.avatar = AvatarOk
    /\ userInfo = [name |-> "Ann", openaiApiKey |-> "sk-123", avatarUrl |-> "blob:2"]

\* C9 (as claimed): neither getUserInfo() nor setAvatarBlob() ever ends with
\* a rejected promise.
C9_NoRejectedPromise ==
    /\ last.sync.pc # "rejected"
    /\ last.call.pc # "rejected"
    /\ \A s \in BagToSet(syncs) : s.pc # "rejected"
    /\ \A c \in BagToSet(avatarCalls) : c.pc # "rejected"

\* The name and key of a profile value, as a pair.
NameAndKey(u) == << u.name, u.openaiApiKey >>

\* The pairs api.getUserInfo() can return.
FetchedPairs == { << d.name, d.openai_api_key >> : d \in ProfileData }

StepOf(s) ==
    \/ \E data \in ProfileData : GetUserInfoResolved(s, data)
    \/ GetUserInfoRejected(s)
    \/ \E r \in AvatarResults : GetAvatarSettled(s, r)
    \/ Merge(s)

\* C11: a sync is never cancelled.  Whatever isHealthy is, a step that is no
\* step of a sync in flight leaves that sync in flight as it is (a change of
\* isHealthy takes none away and alters none), every sync in flight can take
\* its next step, and, when requests settle and continuations run, the syncs
\* in flight all end.
C11_NoCancellation ==
    /\ [][\A s \in BagToSet(syncs) :
            /\ ENABLED StepOf(s)
            /\ (last'.op \in {"HealthChange", "Render", "SetAvatarBlobCall",
                              "SetAvatarBlobResume"}) =>
                   CopiesIn(s, syncs') >= CopiesIn(s, syncs)]_vars
    /\ (syncs # EmptyBag) ~> (syncs = EmptyBag)

\* C11 witness: a sync has merged while isHealthy was false: the signal was
\* lost while the sync was in flight, and the sync ran to its end.
C11_Witness ==
    /\ last.op = "Merge"
    /\ ~rendered.isHealthy
    /\ userInfo.name = "Ann"
    /\ syncs # EmptyBag

\* C12: decoding is faithful and deterministic.  The object URL a decode of
\* the base64 encoding of a payload returns refers to a Blob of exactly the
\* bytes of that payload, and two object URLs made of the same string refer
\* to the same bytes.
C12_DecodeRoundTrip ==
    /\ (last.op = "SetAvatarBlobCall" /\ last.call.pc = "await") =>
          /\ last.call.url \in DOMAIN blobs
          /\ blobs[last.call.url].base64Data = last.call.blob
          /\ \A p \in Payloads :
                last.call.blob = Encoding[p] => blobs[last.call.url].bytes = p
    /\ \A u1, u2 \in DOMAIN blobs :
          blobs[u1].base64Data = blobs[u2].base64Data =>
              blobs[u1].bytes = blobs[u2].bytes

\* C12 witness: the encoding of a two-byte payload with high bits set, one
\* that ends in padding, has been decoded twice.
C12_Witness ==
    /\ Cardinality(DOMAIN blobs) = 2
    /\ \A url \in DOMAIN blobs :
          /\ blobs[url].base64Data = Encoding[<< 137, 255 >>]
          /\ blobs[url].bytes = << 137, 255 >>

\* C13: syncs are not mutually exclusive and the last writer wins.  A
\* change of isHealthy to true starts a getUserInfo() invocation whatever is
\* in flight, leaving those in flight suspended as they are, and a merge
\* stores the profile of its own response whatever has been stored since
\* that response was fetched.
C13_OverlappingSyncsLastWriterWins ==
    /\ [][(~rendered.isHealthy /\ rendered'.isHealthy) =>
            syncs' = syncs (+) SetToBag({NewSync(userInfo, userInfo)})]_vars
    /\ [](last.op = "Merge" =>
            /\ userInfo.name = last.sync.response.name
            /\ userInfo.openaiApiKey = last.sync.response.openai_api_key
            /\ mergedAt = last.sync.fetchedAt)

\* C13 witness: a lost update.  Two syncs overlapped; the one that merged
\* last stored a profile fetched before the profile its merge overwrote.
C13_Witness ==
    /\ last.op = "Merge"
    /\ syncs = EmptyBag
    /\ started = 2
    /\ last.sync.fetchedAt = 1
    /\ last.sync.overwrote = 2
    /\ last.store.name = "Bob"
    /\ userInfo.name = "Ann"

\* The two requests of the invocation s in their order: api.getAvatar() is
\* called only once api.getUserInfo() has resolved, so while one request is
\* outstanding the other is not, and setUserInfo is called only once both
\* have settled.
RequestsInOrder(s) ==
    /\ s.avatarIssued => s.profile = "resolved"
    /\ s.pc = "profile" =>
          (s.profile = "pending" /\ ~s.avatarIssued /\ s.avatar = NoAvatarResult)
    /\ s.pc = "avatar" =>
          (s.profile = "resolved" /\ s.avatarIssued /\ s.avatar = NoAvatarResult)
    /\ s.pc = "merge" => (s.profile = "resolved" /\ s.avatar # NoAvatarResult)
    /\ s.wrote => (s.profile = "resolved" /\ s.avatar # NoAvatarResult)

\* C14: within one sync the requests are strictly ordered.  Every sync in
\* flight and the sync the last step advanced have issued the avatar request
\* only after the profile request resolved, never have both outstanding, and
\* have written the store only after both settled.
C14_RequestsStrictlyOrdered ==
    \A s \in BagToSet(syncs) \cup {last.sync} : RequestsInOrder(s)

\* C14 witness: a sync has written the store after both its requests
\* succeeded, while another sync is waiting for its profile response.
C14_Witness ==
    /\ last.op = "Merge"
    /\ last.sync.wrote
    /\ last.sync.profile = "resolved"
    /\ last.sync.avatar = AvatarOk
    /\ \E s \in BagToSet(syncs) : s.pc = "profile"

\* The last step decoded a blob successfully, in a sync or in a
\* setAvatarBlob call.
DecodeResolved ==
    \/ last.op = "GetAvatarSettled" /\ last.sync.avatarUrl # Null
    \/ last.op = "SetAvatarBlobCall" /\ last.call.pc = "await"

\* C15: no object URL is ever released.  After k successful decodes k object
\* URLs are live, each with its Blob; a successful decode adds exactly one
\* to those live before it; all but at most the one userInfo refers to are
\* live without being referred to; and the URL a write to userInfo
\* supersedes stays live.
C15_NoHandleReleased ==
    /\ Cardinality(objectUrls) = decodes
    /\ DOMAIN blobs = objectUrls
    /\ DecodeResolved =>
          /\ last.urls \subseteq objectUrls
          /\ Cardinality(objectUrls) = Cardinality(last.urls) + 1
    /\ Cardinality(objectUrls \ {userInfo.avatarUrl}) >= decodes - 1
    /\ (last.op \in {"Merge", "SetAvatarBlobResume"} /\ last.store.avatarUrl # Null) =>
          last.store.avatarUrl \in objectUrls

\* C15 witness: three blobs have been decoded, three object URLs are live,
\* and the last write replaced one URL in userInfo by another.
C15_Witness ==
    /\ decodes = 3
    /\ Cardinality(objectUrls) = 3
    /\ last.op = "SetAvatarBlobResume"
    /\ last.store.avatarUrl # Null
    /\ userInfo.avatarUrl # last.store.avatarUrl

\* C16: userInfo refers only to live object URLs.  Under syncs and
\* setAvatarBlob calls, avatarUrl is null or an object URL that an earlier
\* decode created, with its Blob, and that has not been released.
C16_AvatarUrlIsLiveObjectUrl ==
    userInfo.avatarUrl # Null =>
        /\ userInfo.avatarUrl \in objectUrls
        /\ userInfo.avatarUrl \in DOMAIN blobs
        /\ \E i \in 1..decodes : userInfo.avatarUrl = ObjectUrlNames[i]

\* C16 witness: a merge whose avatar request gave no URL has written back
\* the object URL its closure captured, the result of an earlier decode.
C16_Witness ==
    /\ last.op = "Merge"
    /\ last.sync.avatarUrl = Null
    /\ userInfo.avatarUrl # Null
    /\ userInfo.avatarUrl \in objectUrls

\* C17: the avatar never goes back to absent.  A write to userInfo that
\* finds an object URL in avatarUrl leaves an object URL there.
C17_AvatarNeverBecomesAbsent ==
    (last.op \in {"Merge", "SetAvatarBlobResume"} /\ last.store.avatarUrl # Null) =>
        userInfo.avatarUrl # Null

\* C18: a sync notifies at most once.  Every sync in flight, and the sync
\* the last step advanced or ended, has passed at most one message to
\* enqueueSnackbar; one whose profile request was rejected has passed no
\* other than the profile-failure message.
C18_AtMostOneNotificationPerSync ==
    \A s \in BagToSet(syncs) \cup {last.sync} :
        /\ Len(s.notes) <= 1
        /\ s.profile = "rejected" => s.notes = << ErrorGettingUserInfo >>

\* C18 witness: a sync has ended in getUserInfo's catch block because its
\* avatar request failed with a response that carries no data: the avatar
\* failure and the catch block together gave one notification.
C18_Witness ==
    /\ last.op = "GetAvatarSettled"
    /\ last.sync.pc = "done"
    /\ last.sync.avatar = AvatarNullData
    /\ last.sync.notes = << ErrorGettingUserInfo >>

\* name and openaiApiKey of u are both null or are the two fields of one
\* profile response.
Untorn(u) ==
    \/ u.name = Null /\ u.openaiApiKey = Null
    \/ \E d \in ProfileData : u.name = d.name /\ u.openaiApiKey = d.openai_api_key

\* C19: name and key are never torn.  Under syncs and setAvatarBlob calls,
\* however they interleave, the name and key in userInfo, and in the
\* userInfo every closure has captured, are both absent or come together
\* from one profile response.
C19_NameAndKeyNeverTorn ==
    /\ Untorn(userInfo)
    /\ Untorn(rendered.userInfo)
    /\ \A s \in BagToSet(syncs) : Untorn(s.userInfo)
    /\ \A c \in BagToSet(avatarCalls) : Untorn(c.userInfo)

\* C19 witness: setAvatarBlob has replaced the avatar beside Bob's name and
\* key while an overlapping sync holds Ann's profile response.
C19_Witness ==
    /\ last.op = "SetAvatarBlobResume"
    /\ userInfo.name = "Bob"
    /\ userInfo.openaiApiKey = "sk-456"
    /\ userInfo.avatarUrl # Null
    /\ \E s \in BagToSet(syncs) : s.response.name = "Ann"

====
